---------------------------- MODULE Spec2Model ----------------------------
(***************************************************************************)
(* The chess-puzzle gate of the personal website: the useChessPuzzle hook, *)
(* the Home page with ChessPuzzleLogin, and the ChessPuzzle component.     *)
(*                                                                         *)
(* Each component is a React component or hook: its state is its useState  *)
(* cells and useRef game, its operations are its event handlers and the    *)
(* setTimeout callbacks they schedule.  A handler runs to completion and   *)
(* the next handler sees the committed state; a timer callback sees the    *)
(* values its closure captured when it was scheduled, except for refs and  *)
(* functional state updates, which read the current value.                 *)
(*                                                                         *)
(* chess.js is the rules oracle.  A game is the list of plies played from  *)
(* the puzzle's starting position.  A ply is named by who moves and by its *)
(* place in the solution line (ply >= 0) or is a stray move (ply = -1),    *)
(* standing for any legal move that is not in the solution.  What the      *)
(* oracle is known to decide is modelled exactly: it rejects a move of the *)
(* side not to move, it rejects the repetition of the mover's own last     *)
(* move, and it accepts the next solution ply on the solution line.  Any   *)
(* other move may be legal or not.                                         *)
(*                                                                         *)
(* Selection highlights, arrows and board orientation are not modelled.    *)
(***************************************************************************)
EXTENDS Integers, Sequences, FiniteSets, TLC

VARIABLES
    component,  \* which component this run mounts
    hook,       \* useChessPuzzle: state cells, gameRef, pending timers
    home,       \* Home: currentPage
    login,      \* ChessPuzzleLogin: state cells, chessGameRef, pending timers
    cpuzzle,    \* ChessPuzzle: state cells, chessGame, pending timers
    notation,   \* one move, one solution and what each move test said of them
    pchess      \* PuzzleChess: state cells, chessGameRef, pending timers

vars == <<component, hook, home, login, cpuzzle, notation, pchess>>

(***************************************************************************)
(* Bounds of the model.                                                    *)
(***************************************************************************)
MaxLen == 3      \* longest solution line a puzzle source delivers
MaxTimers == 2   \* most setTimeout callbacks pending at once

(***************************************************************************)
(* Delays passed to setTimeout, in milliseconds.                           *)
(***************************************************************************)
HOOK_REVERT_MS == 800
HOOK_REPLY_MS == 600

RECURSIVE GCD(_, _)
GCD(a, b) == IF b = 0 THEN a ELSE GCD(b, a % b)

(***************************************************************************)
(* Plies, games and the rules oracle (chess.js).                           *)
(***************************************************************************)
Ply(mover, n) == [mover |-> mover, ply |-> n]

Stray(mover) == Ply(mover, -1)

Undefined == Ply("none", -2)

\* JavaScript's null, which is not undefined.
Null == Ply("none", -3)

\* The solution line of a puzzle with n plies.  "first" is the side to move
\* in the puzzle's starting position; it plays the plies at even indices.
Line(n) == [i \in 1..n |-> Ply(IF i % 2 = 1 THEN "first" ELSE "second", i - 1)]

\* solution[i] of a JavaScript array: undefined outside the array.
At(solution, i) ==
    IF i >= 0 /\ i < Len(solution) THEN solution[i + 1] ELSE Undefined

Turn(game) == IF Len(game) % 2 = 0 THEN "first" ELSE "second"

fen(game) == [plies |-> game, turn |-> Turn(game)]

OnLine(solution, game) ==
    /\ Len(game) <= Len(solution)
    /\ game = SubSeq(solution, 1, Len(game))

LastBy(game, mover) ==
    LET own == {i \in 1..Len(game) : game[i].mover = mover}
    IN  IF own = {} THEN Undefined
        ELSE game[CHOOSE i \in own : \A j \in own : j <= i]

CanBeLegal(game, m) ==
    /\ m.mover = Turn(game)
    /\ (m.ply >= 0 => LastBy(game, m.mover) # m)

MustBeLegal(solution, game, m) ==
    /\ OnLine(solution, game)
    /\ m = At(solution, Len(game))

\* What game.move(m) can do: TRUE, the move is played; FALSE, it throws.
MoveResults(solution, game, m) ==
    {ok \in BOOLEAN : /\ ok => CanBeLegal(game, m)
                      /\ MustBeLegal(solution, game, m) => ok}

undo(game) == IF game = <<>> THEN game ELSE SubSeq(game, 1, Len(game) - 1)

\* The moves a user tries: the plies of the line and a stray move of
\* either side.
Attempts(solution) ==
    {solution[i] : i \in 1..Len(solution)} \cup {Stray("first"), Stray("second")}

(***************************************************************************)
(* Timers.  A pending timer is a record with its remaining time `due`; the *)
(* browser runs the expired timer with the earliest deadline, the earlier  *)
(* scheduled one first among equals.                                       *)
(***************************************************************************)
Expired(timers) == {i \in 1..Len(timers) : timers[i].due <= 0}

NextTimer(timers) ==
    CHOOSE i \in Expired(timers) :
        \A j \in Expired(timers) :
            \/ timers[i].due < timers[j].due
            \/ (timers[i].due = timers[j].due /\ i <= j)

Without(timers, i) ==
    SubSeq(timers, 1, i - 1) \o SubSeq(timers, i + 1, Len(timers))

Elapse(timers, ms) ==
    [i \in 1..Len(timers) |-> [timers[i] EXCEPT !.due = @ - ms]]

CanElapse(timers) == timers # <<>> /\ Expired(timers) = {}

(***************************************************************************)
(* lib/chess/puzzle.ts                                                     *)
(***************************************************************************)
\* Mutant: accepts any move of the solution, whatever the step.
validatePuzzleMoveAnyStep(move, solution, currentStep) ==
    IF currentStep >= Len(solution) THEN FALSE
    ELSE \E i \in 1..Len(solution) : move = solution[i]

validatePuzzleMove(move, solution, currentStep) ==
    IF currentStep >= Len(solution) THEN FALSE
    ELSE move = At(solution, currentStep)

\* Mutant: off by one.
isPuzzleCompleteLate(currentStep, solution) == currentStep > Len(solution)

isPuzzleComplete(currentStep, solution) == currentStep >= Len(solution)

\* solution[nextIndex] || null; the entries are move strings, never empty.
\* Mutant: reads the entry after the cursor.
getOpponentMoveAhead(solution, currentStep) ==
    LET nextIndex == currentStep + 1
    IN  IF At(solution, nextIndex) = Undefined THEN Null ELSE At(solution, nextIndex)

getOpponentMove(solution, currentStep) ==
    LET nextIndex == currentStep
    IN  IF At(solution, nextIndex) = Undefined THEN Null ELSE At(solution, nextIndex)

(***************************************************************************)
(* lib/hooks/useChessPuzzle.ts                                             *)
(***************************************************************************)
HookTickMs == GCD(HOOK_REVERT_MS, HOOK_REPLY_MS)

HookInitial(moves) ==
    [ moves         |-> moves,
      gameRef       |-> <<>>,
      position      |-> fen(<<>>),
      currentStep   |-> 0,
      status        |-> "Make your move",
      isComplete    |-> FALSE,
      isCorrectMove |-> "null",
      timers        |-> <<>> ]

HookWrongMove(h, m) ==
    [h EXCEPT !.gameRef = Append(@, m),
              !.status = "Wrong move! Try again",
              !.isCorrectMove = "false",
              !.timers = Append(@, [kind |-> "revert", due |-> HOOK_REVERT_MS])]

HookCorrectMove(h, m) ==
    LET played == Append(h.gameRef, m)
        base == [h EXCEPT !.gameRef = played,
                          !.isCorrectMove = "true",
                          !.position = fen(played),
                          !.status = "Correct!",
                          !.currentStep = @ + 1]
    IN  IF isPuzzleComplete(h.currentStep + 1, h.moves)
        THEN [base EXCEPT !.isComplete = TRUE, !.status = "Puzzle solved!"]
        ELSE [base EXCEPT !.timers = Append(@, [kind |-> "reply",
                                                due |-> HOOK_REPLY_MS,
                                                step |-> h.currentStep])]

\* makeMove(from, to): `legal` is what gameRef.current.move does with it.
\* An illegal move throws (or, with a chess.js that returns null, only sets
\* the status).
makeMove(m, legal, nullOnIllegal) ==
    /\ component = "useChessPuzzle"
    /\ legal => CanBeLegal(hook.gameRef, m)
    /\ legal => ~nullOnIllegal
    /\ hook' = IF ~legal
               THEN IF nullOnIllegal THEN [hook EXCEPT !.status = "Illegal move"]
                    ELSE hook
               ELSE IF ~validatePuzzleMove(m, hook.moves, hook.currentStep)
                    THEN HookWrongMove(hook, m)
                    ELSE HookCorrectMove(hook, m)
    /\ Len(hook'.timers) <= MaxTimers
    /\ UNCHANGED <<component, home, login, cpuzzle, notation, pchess>>

\* Mutant: the undo also rewinds the cursor.
HookRevertRewinds(h) ==
    LET g == undo(h.gameRef)
    IN  [h EXCEPT !.gameRef = g,
                  !.position = fen(g),
                  !.currentStep = IF @ > 0 THEN @ - 1 ELSE @,
                  !.isCorrectMove = "null",
                  !.status = "Try again"]

HookRevert(h) ==
    LET g == undo(h.gameRef)
    IN  [h EXCEPT !.gameRef = g,
                  !.position = fen(g),
                  !.isCorrectMove = "null",
                  !.status = "Try again"]

HookReply(h, step, ok) ==
    LET opponentMoveStr == getOpponentMove(h.moves, step + 1)
        g == Append(h.gameRef, opponentMoveStr)
        base == [h EXCEPT !.gameRef = g,
                          !.position = fen(g),
                          !.currentStep = @ + 1,
                          !.status = "Your turn",
                          !.isCorrectMove = "null"]
    IN  IF opponentMoveStr = Null \/ ~ok THEN h
        ELSE IF isPuzzleComplete(step + 2, h.moves)
             THEN [base EXCEPT !.isComplete = TRUE, !.status = "Puzzle solved!"]
             ELSE base

HookTimerFires ==
    /\ component = "useChessPuzzle"
    /\ Expired(hook.timers) # {}
    /\ LET i == NextTimer(hook.timers)
           t == hook.timers[i]
           rest == [hook EXCEPT !.timers = Without(@, i)]
       IN  IF t.kind = "revert"
           THEN hook' = HookRevert(rest)
           ELSE \E ok \in MoveResults(hook.moves, hook.gameRef,
                                      getOpponentMove(hook.moves, t.step + 1)) :
                    hook' = HookReply(rest, t.step, ok)
    /\ UNCHANGED <<component, home, login, cpuzzle, notation, pchess>>

HookTick ==
    /\ component = "useChessPuzzle"
    /\ CanElapse(hook.timers)
    /\ hook' = [hook EXCEPT !.timers = Elapse(@, HookTickMs)]
    /\ UNCHANGED <<component, home, login, cpuzzle, notation, pchess>>

\* Mutant: forgets setIsComplete(false).
HookResetKeepsComplete(h) ==
    [h EXCEPT !.gameRef = <<>>,
              !.position = fen(<<>>),
              !.currentStep = 0,
              !.status = "Make your move",
              !.isCorrectMove = "null"]

HookReset(h) ==
    [h EXCEPT !.gameRef = <<>>,
              !.position = fen(<<>>),
              !.currentStep = 0,
              !.status = "Make your move",
              !.isComplete = FALSE,
              !.isCorrectMove = "null"]

reset ==
    /\ component = "useChessPuzzle"
    /\ hook' = HookReset(hook)
    /\ UNCHANGED <<component, home, login, cpuzzle, notation, pchess>>

HookInit == hook \in {HookInitial(Line(n)) : n \in 0..MaxLen}

HookNext ==
    \/ \E m \in Attempts(hook.moves), legal \in BOOLEAN, nullOnIllegal \in BOOLEAN :
           makeMove(m, legal, nullOnIllegal)
    \/ HookTimerFires
    \/ HookTick
    \/ reset

(***************************************************************************)
(* app/page.tsx (Home) and components/ChessPuzzleLogin.tsx                 *)
(***************************************************************************)
LOGIN_REVERT_MS == 500
LOGIN_REPLY_MS == 500
LOGIN_SOLVED_MS == 1500

LoginTickMs == GCD(GCD(LOGIN_REVERT_MS, LOGIN_REPLY_MS), LOGIN_SOLVED_MS)

\* new Chess(): the standard starting position, not a puzzle position.
StartFen == [plies |-> <<>>, turn |-> "w"]

LoginUnmounted ==
    [ mounted        |-> FALSE,
      fetching       |-> FALSE,
      data           |-> <<>>,
      loaded         |-> FALSE,
      chessGameRef   |-> <<>>,
      chessPosition  |-> StartFen,
      status         |-> "Loading puzzle from Lichess...",
      solutionIndex  |-> 0,
      puzzleSolution |-> <<>>,
      isLoading      |-> TRUE,
      error          |-> "null",
      timers         |-> <<>> ]

handlePlayPuzzle ==
    /\ component = "Home"
    /\ home.currentPage = "welcome"
    /\ home' = [home EXCEPT !.currentPage = "puzzle"]
    /\ login' = [LoginUnmounted EXCEPT !.mounted = TRUE, !.fetching = TRUE]
    /\ UNCHANGED <<component, hook, cpuzzle, notation, pchess>>

handleSkipToWebsite ==
    /\ component = "Home"
    /\ home.currentPage = "welcome"
    /\ home' = [home EXCEPT !.currentPage = "portfolio"]
    /\ UNCHANGED <<component, hook, login, cpuzzle, notation, pchess>>

\* Mutant: goes back to the welcome page.
handlePuzzleSolvedToWelcome == [home EXCEPT !.currentPage = "welcome"]

handlePuzzleSolved == [home EXCEPT !.currentPage = "portfolio"]

\* The mount effect's fetchPuzzle, from the response on.  `solution` is
\* data.puzzle.solution.
LoginLoaded(l, solution) ==
    IF Len(solution) > 0
    THEN LET game == <<solution[1]>>
             userSolution == Tail(solution)
         IN  [l EXCEPT !.fetching = FALSE,
                       !.data = solution,
                       !.loaded = TRUE,
                       !.chessGameRef = game,
                       !.chessPosition = fen(game),
                       !.puzzleSolution = userSolution,
                       !.status = "to move - Find the best move!",
                       !.isLoading = FALSE]
    ELSE [l EXCEPT !.fetching = FALSE, !.isLoading = FALSE]

\* Mutant: forgets setIsLoading(false).
LoginFetchFailedLoading(l) ==
    [l EXCEPT !.fetching = FALSE,
              !.error = "Failed to load puzzle. Please refresh to try again."]

LoginFetchFailed(l) ==
    [l EXCEPT !.fetching = FALSE,
              !.error = "Failed to load puzzle. Please refresh to try again.",
              !.isLoading = FALSE]

fetchPuzzle ==
    /\ component = "Home"
    /\ home.currentPage = "puzzle"
    /\ login.fetching
    /\ \/ \E n \in 0..(MaxLen + 1) : login' = LoginLoaded(login, Line(n))
       \/ login' = LoginFetchFailed(login)
    /\ UNCHANGED <<component, hook, home, cpuzzle, notation, pchess>>

\* The board is rendered only when loading is over and there is no error.
LoginBoardShown ==
    /\ home.currentPage = "puzzle"
    /\ login.mounted
    /\ ~login.isLoading
    /\ login.error = "null"

LoginMatches(playedUci, fromTo, expected) ==
    ~(playedUci # expected /\ fromTo # expected)

\* Mutant: off by one.
LoginSolvedEarly(newIndex, puzzleSolution) == newIndex + 1 >= Len(puzzleSolution)

LoginSolved(newIndex, puzzleSolution) == newIndex >= Len(puzzleSolution)

LoginWrongMove(l, m) ==
    LET game == Append(l.chessGameRef, m)
    IN  [l EXCEPT !.chessGameRef = game,
                  !.chessPosition = fen(game),
                  !.timers = Append(@, [kind |-> "revert", due |-> LOGIN_REVERT_MS,
                                        prevFen |-> fen(l.chessGameRef)])]

\* Mutant: forgets setSolutionIndex(newIndex).
LoginCorrectMoveSameIndex(l, m) ==
    LET game == Append(l.chessGameRef, m)
        hasReply == l.solutionIndex + 1 < Len(l.puzzleSolution)
        newIndex == IF hasReply THEN l.solutionIndex + 2 ELSE l.solutionIndex + 1
        replied == IF hasReply
                   THEN Append(l.timers,
                               [kind |-> "reply", due |-> LOGIN_REPLY_MS,
                                replyUci |-> At(l.puzzleSolution, l.solutionIndex + 1)])
                   ELSE l.timers
        base == [l EXCEPT !.chessGameRef = game,
                          !.chessPosition = fen(game)]
    IN  IF LoginSolved(newIndex, l.puzzleSolution)
        THEN [base EXCEPT !.status = "Puzzle solved! Granting access...",
                          !.timers = Append(replied, [kind |-> "solved",
                                                      due |-> LOGIN_SOLVED_MS])]
        ELSE [base EXCEPT !.status = "Correct! Now to move.",
                          !.timers = replied]

LoginCorrectMove(l, m) ==
    LET game == Append(l.chessGameRef, m)
        hasReply == l.solutionIndex + 1 < Len(l.puzzleSolution)
        newIndex == IF hasReply THEN l.solutionIndex + 2 ELSE l.solutionIndex + 1
        replied == IF hasReply
                   THEN Append(l.timers,
                               [kind |-> "reply", due |-> LOGIN_REPLY_MS,
                                replyUci |-> At(l.puzzleSolution, l.solutionIndex + 1)])
                   ELSE l.timers
        base == [l EXCEPT !.chessGameRef = game,
                          !.chessPosition = fen(game),
                          !.solutionIndex = newIndex]
    IN  IF LoginSolved(newIndex, l.puzzleSolution)
        THEN [base EXCEPT !.status = "Puzzle solved! Granting access...",
                          !.timers = Append(replied, [kind |-> "solved",
                                                      due |-> LOGIN_SOLVED_MS])]
        ELSE [base EXCEPT !.status = "Correct! Now to move.",
                          !.timers = replied]

\* handleUserMove(from, to), reached from onSquareClick and onPieceDrop.
handleUserMove(m, legal) ==
    /\ component = "Home"
    /\ LoginBoardShown
    /\ legal => CanBeLegal(login.chessGameRef, m)
    /\ LET expected == At(login.puzzleSolution, login.solutionIndex)
       IN  login' = IF expected = Undefined \/ ~legal THEN login
                    ELSE IF ~LoginMatches(m, m, expected)
                         THEN LoginWrongMove(login, m)
                         ELSE LoginCorrectMove(login, m)
    /\ Len(login'.timers) <= MaxTimers
    /\ UNCHANGED <<component, hook, home, cpuzzle, notation, pchess>>

LoginRevert(l, t) ==
    [l EXCEPT !.chessGameRef = undo(@),
              !.status = "Not quite! Try again.",
              !.chessPosition = t.prevFen]

LoginReply(l, t, ok) ==
    IF ~ok THEN l
    ELSE LET game == Append(l.chessGameRef, t.replyUci)
         IN  [l EXCEPT !.chessGameRef = game, !.chessPosition = fen(game)]

LoginTimerFires ==
    /\ component = "Home"
    /\ home.currentPage = "puzzle"
    /\ Expired(login.timers) # {}
    /\ LET i == NextTimer(login.timers)
           t == login.timers[i]
           rest == [login EXCEPT !.timers = Without(@, i)]
       IN  CASE t.kind = "revert" ->
                    /\ login' = LoginRevert(rest, t)
                    /\ home' = home
              [] t.kind = "reply" ->
                    /\ \E ok \in MoveResults(login.data, login.chessGameRef, t.replyUci) :
                           login' = LoginReply(rest, t, ok)
                    /\ home' = home
              [] t.kind = "solved" ->
                    /\ login' = rest
                    /\ home' = handlePuzzleSolved
    /\ UNCHANGED <<component, hook, cpuzzle, notation, pchess>>

LoginTick ==
    /\ component = "Home"
    /\ home.currentPage = "puzzle"
    /\ CanElapse(login.timers)
    /\ login' = [login EXCEPT !.timers = Elapse(@, LoginTickMs)]
    /\ UNCHANGED <<component, hook, home, cpuzzle, notation, pchess>>

HomeInit == home = [currentPage |-> "welcome"] /\ login = LoginUnmounted

HomeNext ==
    \/ handlePlayPuzzle
    \/ handleSkipToWebsite
    \/ fetchPuzzle
    \/ \E m \in Attempts(login.data), legal \in BOOLEAN : handleUserMove(m, legal)
    \/ LoginTimerFires
    \/ LoginTick

(***************************************************************************)
(* app/components/chessPuzzle.tsx: ChessPuzzle                             *)
(***************************************************************************)
CP_FIRST_MS == 500
CP_REPLY_MS == 800
CP_SOLUTION_LEN == 5

CPTickMs == GCD(CP_FIRST_MS, CP_REPLY_MS)

\* puzzleData.puzzle.solution
CPSolution == Line(CP_SOLUTION_LEN)

\* The test of the mount effect and of resetPuzzle: play solution[0] on a
\* copy of the starting position and see whether the player is to move.
CPComputerMovesFirst(solution) ==
    /\ Len(solution) > 0
    /\ MustBeLegal(solution, <<>>, At(solution, 0))
    /\ Turn(<<At(solution, 0)>>) = Turn(<<>>)

CPFresh(timers) ==
    [ mounted       |-> TRUE,
      chessGame     |-> <<>>,
      chessPosition |-> fen(<<>>),
      solutionIndex |-> 0,
      puzzleStatus  |-> "playing",
      isUserTurn    |-> TRUE,
      timers        |-> IF CPComputerMovesFirst(CPSolution)
                        THEN Append(timers, [kind |-> "first", due |-> CP_FIRST_MS,
                                             solutionIndex |-> 0])
                        ELSE timers ]

resetPuzzle ==
    /\ component = "ChessPuzzle"
    /\ cpuzzle' = CPFresh(cpuzzle.timers)
    /\ UNCHANGED <<component, hook, home, login, notation, pchess>>

checkPlayerMove(m, solutionIndex) ==
    IF solutionIndex >= Len(CPSolution) THEN FALSE
    ELSE m = At(CPSolution, solutionIndex)

CPComplete(solutionIndex) == solutionIndex >= Len(CPSolution)

\* The part onSquareClick and onPieceDrop share, from chessGame.move on.
CPPlayerMove(c, m) ==
    LET game == Append(c.chessGame, m)
        base == [c EXCEPT !.chessGame = game,
                          !.chessPosition = fen(game),
                          !.solutionIndex = c.solutionIndex + 1,
                          !.puzzleStatus = "correct",
                          !.isUserTurn = FALSE]
    IN  IF CPComplete(c.solutionIndex + 1)
        THEN [base EXCEPT !.puzzleStatus = "complete"]
        ELSE [base EXCEPT !.timers = Append(@, [kind |-> "reply", due |-> CP_REPLY_MS,
                                                solutionIndex |-> c.solutionIndex])]

\* Mutant: forgets the test of isUserTurn.
CPAcceptsAnyTurn == cpuzzle.puzzleStatus = "playing"

CPAccepts == cpuzzle.puzzleStatus = "playing" /\ cpuzzle.isUserTurn

\* onSquareClick on the target square of a move found among the legal
\* moves of the selected piece.
onSquareClick(m) ==
    /\ component = "ChessPuzzle"
    /\ CanBeLegal(cpuzzle.chessGame, m)
    /\ cpuzzle' = IF ~CPAccepts THEN cpuzzle
                  ELSE IF ~checkPlayerMove(m, cpuzzle.solutionIndex) THEN cpuzzle
                  ELSE CPPlayerMove(cpuzzle, m)
    /\ Len(cpuzzle'.timers) <= MaxTimers
    /\ UNCHANGED <<component, hook, home, login, notation, pchess>>

onPieceDrop(m, legal) ==
    /\ component = "ChessPuzzle"
    /\ legal => CanBeLegal(cpuzzle.chessGame, m)
    /\ cpuzzle' = IF ~CPAccepts THEN cpuzzle
                  ELSE IF ~checkPlayerMove(m, cpuzzle.solutionIndex) THEN cpuzzle
                  ELSE IF ~legal THEN cpuzzle
                  ELSE CPPlayerMove(cpuzzle, m)
    /\ Len(cpuzzle'.timers) <= MaxTimers
    /\ UNCHANGED <<component, hook, home, login, notation, pchess>>

\* makeComputerMove of the render that scheduled the timer: solutionIndex
\* is the value that render saw.
makeComputerMove(c, solutionIndex, ok) ==
    IF solutionIndex >= Len(CPSolution)
    THEN [c EXCEPT !.puzzleStatus = "complete"]
    ELSE IF ~ok THEN c
    ELSE LET game == Append(c.chessGame, At(CPSolution, solutionIndex))
             base == [c EXCEPT !.chessGame = game,
                               !.chessPosition = fen(game),
                               !.solutionIndex = solutionIndex + 1,
                               !.isUserTurn = TRUE]
         IN  IF CPComplete(solutionIndex + 1)
             THEN [base EXCEPT !.puzzleStatus = "complete"]
             ELSE base

CPTimerFires ==
    /\ component = "ChessPuzzle"
    /\ Expired(cpuzzle.timers) # {}
    /\ LET i == NextTimer(cpuzzle.timers)
           t == cpuzzle.timers[i]
           rest == [cpuzzle EXCEPT !.timers = Without(@, i)]
           woken == IF t.kind = "reply" THEN [rest EXCEPT !.puzzleStatus = "playing"]
                    ELSE rest
       IN  \E ok \in MoveResults(CPSolution, cpuzzle.chessGame,
                                 At(CPSolution, t.solutionIndex)) :
               cpuzzle' = makeComputerMove(woken, t.solutionIndex, ok)
    /\ UNCHANGED <<component, hook, home, login, notation, pchess>>

CPTick ==
    /\ component = "ChessPuzzle"
    /\ CanElapse(cpuzzle.timers)
    /\ cpuzzle' = [cpuzzle EXCEPT !.timers = Elapse(@, CPTickMs)]
    /\ UNCHANGED <<component, hook, home, login, notation, pchess>>

CPuzzleIdle == [CPFresh(<<>>) EXCEPT !.mounted = FALSE]

CPInit == cpuzzle = CPFresh(<<>>)

CPNext ==
    \/ resetPuzzle
    \/ \E m \in Attempts(CPSolution) : onSquareClick(m)
    \/ \E m \in Attempts(CPSolution), legal \in BOOLEAN : onPieceDrop(m, legal)
    \/ CPTimerFires
    \/ CPTick

(***************************************************************************)
(* app/components/chessPuzzle.tsx: PuzzleChess                             *)
(***************************************************************************)
PCHESS_SOLUTION_LEN == 3
PCHESS_REVERT_MS == 500
PCHESS_REPLY_MS == 500

PChessTickMs == GCD(PCHESS_REVERT_MS, PCHESS_REPLY_MS)

\* PUZZLE_SOLUTION as a line of plies; the player moves first.
PChessSolution == Line(PCHESS_SOLUTION_LEN)

\* The state the mount effect leaves: the position after PUZZLE_PGN.
PChessMounted ==
    [ chessGameRef  |-> <<>>,
      chessPosition |-> fen(<<>>),
      status        |-> "Black to move - find the winning line!",
      solutionIndex |-> 0,
      timers        |-> <<>> ]

PChessWrongMove(p, m) ==
    LET game == Append(p.chessGameRef, m)
    IN  [p EXCEPT !.chessGameRef = game,
                  !.chessPosition = fen(game),
                  !.timers = Append(@, [kind |-> "revert", due |-> PCHESS_REVERT_MS,
                                        prevFen |-> fen(p.chessGameRef)])]

\* Mutant: counts the reply only when it is played.
PChessCorrectMoveNoSkip(p, m) ==
    LET game == Append(p.chessGameRef, m)
        hasReply == p.solutionIndex + 1 < Len(PChessSolution)
        newIndex == p.solutionIndex + 1
        base == [p EXCEPT !.chessGameRef = game,
                          !.chessPosition = fen(game),
                          !.solutionIndex = newIndex,
                          !.timers = IF hasReply
                                     THEN Append(@, [kind |-> "reply",
                                                     due |-> PCHESS_REPLY_MS,
                                                     replyUci |-> At(PChessSolution,
                                                                     p.solutionIndex + 1)])
                                     ELSE @]
    IN  IF newIndex >= Len(PChessSolution)
        THEN [base EXCEPT !.status = "Puzzle solved!"]
        ELSE [base EXCEPT !.status = "Correct! Now to move."]

PChessCorrectMove(p, m) ==
    LET game == Append(p.chessGameRef, m)
        hasReply == p.solutionIndex + 1 < Len(PChessSolution)
        newIndex == IF hasReply THEN p.solutionIndex + 2 ELSE p.solutionIndex + 1
        base == [p EXCEPT !.chessGameRef = game,
                          !.chessPosition = fen(game),
                          !.solutionIndex = newIndex,
                          !.timers = IF hasReply
                                     THEN Append(@, [kind |-> "reply",
                                                     due |-> PCHESS_REPLY_MS,
                                                     replyUci |-> At(PChessSolution,
                                                                     p.solutionIndex + 1)])
                                     ELSE @]
    IN  IF newIndex >= Len(PChessSolution)
        THEN [base EXCEPT !.status = "Puzzle solved!"]
        ELSE [base EXCEPT !.status = "Correct! Now to move."]

\* handleUserMove(from, to), reached from onSquareClick and onPieceDrop.
PChessHandleUserMove(m, legal) ==
    /\ component = "PuzzleChess"
    /\ legal => CanBeLegal(pchess.chessGameRef, m)
    /\ LET expected == At(PChessSolution, pchess.solutionIndex)
       IN  pchess' = IF expected = Undefined \/ ~legal THEN pchess
                     ELSE IF m # expected THEN PChessWrongMove(pchess, m)
                     ELSE PChessCorrectMove(pchess, m)
    /\ Len(pchess'.timers) <= MaxTimers
    /\ UNCHANGED <<component, hook, home, login, cpuzzle, notation>>

PChessRevert(p, t) ==
    [p EXCEPT !.chessGameRef = undo(@),
              !.status = "Wrong move, try again!",
              !.chessPosition = t.prevFen]

PChessReply(p, t, ok) ==
    IF ~ok THEN p
    ELSE LET game == Append(p.chessGameRef, t.replyUci)
         IN  [p EXCEPT !.chessGameRef = game, !.chessPosition = fen(game)]

PChessTimerFires ==
    /\ component = "PuzzleChess"
    /\ Expired(pchess.timers) # {}
    /\ LET i == NextTimer(pchess.timers)
           t == pchess.timers[i]
           rest == [pchess EXCEPT !.timers = Without(@, i)]
       IN  IF t.kind = "revert"
           THEN pchess' = PChessRevert(rest, t)
           ELSE \E ok \in MoveResults(PChessSolution, pchess.chessGameRef, t.replyUci) :
                    pchess' = PChessReply(rest, t, ok)
    /\ UNCHANGED <<component, hook, home, login, cpuzzle, notation>>

PChessTick ==
    /\ component = "PuzzleChess"
    /\ CanElapse(pchess.timers)
    /\ pchess' = [pchess EXCEPT !.timers = Elapse(@, PChessTickMs)]
    /\ UNCHANGED <<component, hook, home, login, cpuzzle, notation>>

PChessNext ==
    \/ \E m \in Attempts(PChessSolution), legal \in BOOLEAN : PChessHandleUserMove(m, legal)
    \/ PChessTimerFires
    \/ PChessTick

(***************************************************************************)
(* Move notation and the pure functions of lib/chess/puzzle.ts.            *)
(*                                                                         *)
(* A UCI string is its source square, its destination square and its      *)
(* promotion letter ("" when it has none); squares have a fixed width, so  *)
(* two such strings are equal exactly when the three parts are.  One run   *)
(* takes one legal move, one solution and one cursor, and applies one of   *)
(* the move tests or functions to them.                                    *)
(***************************************************************************)
MaxTotal == 8   \* longest solution given to the functions

Uci(from, to, promotion) == [from |-> from, to |-> to, promotion |-> promotion]

\* Source and destination of the moves tried.  Only a move from the
\* seventh rank to the eighth can be a pawn's promotion.
NotationSquares == {<<"e7", "e8">>, <<"e7", "d8">>, <<"c8", "c1">>, <<"a3", "e3">>}

CanPromote(from, to) == from = "e7"

\* The move object chess.js returns for a legal move: promotion is the
\* piece asked for when the move promotes and is absent otherwise.
ChessMove(from, to, promotes, promotion) ==
    [from |-> from, to |-> to,
     promotion |-> IF promotes THEN promotion ELSE "undefined"]

\* move.lan
lan(move) ==
    Uci(move.from, move.to,
        IF move.promotion = "undefined" THEN "" ELSE move.promotion)

PUZZLE_SOLUTION == <<Uci("c8", "c1", ""), Uci("d2", "c1", ""), Uci("a3", "e3", "")>>

NotationEntries ==
    {Uci(sq[1], sq[2], "") : sq \in NotationSquares}
        \cup {Uci(sq[1], sq[2], p) : sq \in {s \in NotationSquares : CanPromote(s[1], s[2])},
                                     p \in {"q", "n"}}

NotationLine(n) ==
    [i \in 1..n |-> IF i % 2 = 1 THEN Uci("c8", "c1", "") ELSE Uci("e7", "e8", "q")]

NotationSolutions ==
    {<<>>} \cup {<<e>> : e \in NotationEntries} \cup {NotationLine(n) : n \in 2..MaxTotal}

NotationIdle ==
    [fn |-> "none", from |-> "", to |-> "", promotes |-> FALSE, promotion |-> "undefined",
     solution |-> <<>>, currentStep |-> 0, result |-> "none"]

NotationInit ==
    \E sq \in NotationSquares, promotes \in BOOLEAN,
       promotion \in {"undefined", "q", "n"},
       solution \in NotationSolutions, currentStep \in 0..(MaxTotal + 1) :
        /\ promotes => CanPromote(sq[1], sq[2])
        /\ notation = [NotationIdle EXCEPT !.from = sq[1], !.to = sq[2],
                                           !.promotes = promotes,
                                           !.promotion = promotion,
                                           !.solution = solution,
                                           !.currentStep = currentStep]

NotationAwaits == component = "puzzle.ts" /\ notation.fn = "none"

NotationResult(fn, result) == [notation EXCEPT !.fn = fn, !.result = result]

\* The test of useChessPuzzle.makeMove on a legal move.
HookMoveTest ==
    LET promotion == IF notation.promotion = "undefined" THEN "q" ELSE notation.promotion
        move == ChessMove(notation.from, notation.to, notation.promotes, promotion)
    IN  /\ NotationAwaits
        /\ notation' = NotationResult("useChessPuzzle.makeMove",
                                       validatePuzzleMove(lan(move), notation.solution,
                                                          notation.currentStep))
        /\ UNCHANGED <<component, hook, home, login, cpuzzle, pchess>>

\* The test of ChessPuzzleLogin.handleUserMove on a legal move.
LoginMoveTest ==
    LET expected == At(notation.solution, notation.currentStep)
        move == ChessMove(notation.from, notation.to, notation.promotes, "q")
        playedUci == Uci(move.from, move.to,
                         IF move.promotion = "undefined" THEN "" ELSE move.promotion)
        fromTo == Uci(move.from, move.to, "")
    IN  /\ NotationAwaits
        /\ notation' = NotationResult("ChessPuzzleLogin.handleUserMove",
                                       IF expected = Undefined THEN FALSE
                                       ELSE LoginMatches(playedUci, fromTo, expected))
        /\ UNCHANGED <<component, hook, home, login, cpuzzle, pchess>>

\* The test of PuzzleChess.handleUserMove on a legal move; its solution is
\* PUZZLE_SOLUTION.
PuzzleChessMoveTest ==
    LET expected == At(PUZZLE_SOLUTION, notation.currentStep)
        move == ChessMove(notation.from, notation.to, notation.promotes, "q")
        playedUci == Uci(move.from, move.to, "")
    IN  /\ NotationAwaits
        /\ notation' = NotationResult("PuzzleChess.handleUserMove",
                                       IF expected = Undefined THEN FALSE
                                       ELSE ~(playedUci # expected))
        /\ UNCHANGED <<component, hook, home, login, cpuzzle, pchess>>

\* Math.round of the quotient a / b of two naturals, b > 0.
MathRound(a, b) == (2 * a + b) \div (2 * b)

Min(a, b) == IF a <= b THEN a ELSE b

\* Mutant: no Math.min.
getPuzzleProgressUnclamped(currentStep, solution) ==
    IF Len(solution) = 0 THEN 0
    ELSE MathRound(currentStep * 100, Len(solution))

getPuzzleProgress(currentStep, solution) ==
    IF Len(solution) = 0 THEN 0
    ELSE Min(100, MathRound(currentStep * 100, Len(solution)))

ProgressCall ==
    /\ NotationAwaits
    /\ notation' = NotationResult("getPuzzleProgress",
                                   getPuzzleProgress(notation.currentStep, notation.solution))
    /\ UNCHANGED <<component, hook, home, login, cpuzzle, pchess>>

OpponentMoveCall ==
    /\ NotationAwaits
    /\ notation' = NotationResult("getOpponentMove",
                                   getOpponentMove(notation.solution, notation.currentStep))
    /\ UNCHANGED <<component, hook, home, login, cpuzzle, pchess>>

\* data.puzzle.solution is all of the response that is modelled.
parseLichessPuzzle(data) == [moves |-> data]

\* What a call of fetchDailyPuzzle does with the response of fetch: the
\* request "rejected", a response that is "notOk", or an "ok" response
\* carrying data.
fetchDailyPuzzle(response, data) ==
    IF response = "rejected" THEN [response |-> response, threw |-> TRUE]
    ELSE IF response # "ok" THEN [response |-> response, threw |-> TRUE]
    ELSE [response |-> response, threw |-> FALSE, puzzle |-> parseLichessPuzzle(data)]

FetchDailyPuzzleCall ==
    /\ NotationAwaits
    /\ \E response \in {"rejected", "notOk", "ok"} :
           notation' = NotationResult("fetchDailyPuzzle",
                                      fetchDailyPuzzle(response, notation.solution))
    /\ UNCHANGED <<component, hook, home, login, cpuzzle, pchess>>

NotationNext ==
    \/ FetchDailyPuzzleCall
    \/ HookMoveTest
    \/ LoginMoveTest
    \/ PuzzleChessMoveTest
    \/ ProgressCall
    \/ OpponentMoveCall

(***************************************************************************)
(* The program: one mounted component, or one function call, per run.      *)
(***************************************************************************)
InitHook ==
    /\ component = "useChessPuzzle"
    /\ HookInit
    /\ HomeInit
    /\ cpuzzle = CPuzzleIdle
    /\ notation = NotationIdle
    /\ pchess = PChessMounted

InitHome ==
    /\ component = "Home"
    /\ hook = HookInitial(<<>>)
    /\ HomeInit
    /\ cpuzzle = CPuzzleIdle
    /\ notation = NotationIdle
    /\ pchess = PChessMounted

InitChessPuzzle ==
    /\ component = "ChessPuzzle"
    /\ hook = HookInitial(<<>>)
    /\ HomeInit
    /\ CPInit
    /\ notation = NotationIdle
    /\ pchess = PChessMounted

InitNotation ==
    /\ component = "puzzle.ts"
    /\ hook = HookInitial(<<>>)
    /\ HomeInit
    /\ cpuzzle = CPuzzleIdle
    /\ NotationInit
    /\ pchess = PChessMounted

InitPuzzleChess ==
    /\ component = "PuzzleChess"
    /\ hook = HookInitial(<<>>)
    /\ HomeInit
    /\ cpuzzle = CPuzzleIdle
    /\ notation = NotationIdle
    /\ pchess = PChessMounted

Init == InitHook \/ InitHome \/ InitChessPuzzle \/ InitNotation \/ InitPuzzleChess

Next == HookNext \/ HomeNext \/ CPNext \/ NotationNext \/ PChessNext

SpecHook == InitHook /\ [][HookNext]_vars

SpecHome == InitHome /\ [][HomeNext]_vars

SpecChessPuzzle == InitChessPuzzle /\ [][CPNext]_vars

SpecNotation == InitNotation /\ [][NotationNext]_vars

SpecPuzzleChess == InitPuzzleChess /\ [][PChessNext]_vars

Spec == Init /\ [][Next]_vars

(***************************************************************************)
(* Steps of the handlers, as seen from a pair of states.                   *)
(***************************************************************************)
HookLegalMove(m) == makeMove(m, TRUE, FALSE)

HookWrongStep ==
    \E m \in Attempts(hook.moves) :
        m # At(hook.moves, hook.currentStep) /\ HookLegalMove(m)

HookAcceptedStep ==
    \E m \in Attempts(hook.moves) :
        m = At(hook.moves, hook.currentStep) /\ HookLegalMove(m)

LoginExpected == At(login.puzzleSolution, login.solutionIndex)

LoginWrongStep ==
    \E m \in Attempts(login.data) :
        LoginExpected # Undefined /\ m # LoginExpected /\ handleUserMove(m, TRUE)

HasTimer(timers, kind) == \E i \in 1..Len(timers) : timers[i].kind = kind

LoginAcceptedStep ==
    \E m \in Attempts(login.data) :
        LoginExpected # Undefined /\ m = LoginExpected /\ handleUserMove(m, TRUE)

LoginSolvedFires ==
    /\ LoginTimerFires
    /\ login.timers[NextTimer(login.timers)].kind = "solved"

LoginRevertFires ==
    /\ LoginTimerFires
    /\ login.timers[NextTimer(login.timers)].kind = "revert"

(***************************************************************************)
(* C1.  Home.currentPage becomes 'portfolio' only through                  *)
(* handleSkipToWebsite or through onPuzzleSolved, and the onPuzzleSolved   *)
(* timer is started only by a step of handleUserMove that accepts the move *)
(* and brings solutionIndex to puzzleSolution.length; while it is pending, *)
(* and when the portfolio is shown after it, solutionIndex is the length   *)
(* of a non-empty puzzleSolution and there is no fetch error.              *)
(***************************************************************************)
LoginAllMatched ==
    /\ login.solutionIndex = Len(login.puzzleSolution)
    /\ Len(login.puzzleSolution) > 0
    /\ login.error = "null"
    /\ ~login.isLoading

C1_PortfolioOnlyBySkipOrSolved ==
    [][ /\ (home'.currentPage = "portfolio" /\ home.currentPage # "portfolio")
            => \/ handleSkipToWebsite
               \/ (LoginSolvedFires /\ LoginAllMatched)
        /\ (HasTimer(login'.timers, "solved") /\ ~HasTimer(login.timers, "solved"))
            => (LoginAcceptedStep /\ LoginAllMatched')
        /\ HasTimer(login'.timers, "solved") => LoginAllMatched'
      ]_vars

C1_Witness ==
    /\ home.currentPage = "portfolio"
    /\ login.mounted
    /\ Len(login.puzzleSolution) = 3

C3_AcceptedMoveAdvancesByOne ==
    [][ HookAcceptedStep =>
          /\ hook'.currentStep = hook.currentStep + 1
          /\ hook'.isCorrectMove = "true"
          /\ IF hook.currentStep + 1 = Len(hook.moves)
             THEN /\ hook'.isComplete
                  /\ hook'.status = "Puzzle solved!"
                  /\ hook'.timers = hook.timers
             ELSE /\ hook'.isComplete = hook.isComplete
                  /\ hook'.status = "Correct!"
                  /\ hook'.timers = Append(hook.timers,
                                           [kind |-> "reply", due |-> HOOK_REPLY_MS,
                                            step |-> hook.currentStep])
      ]_vars

C3_Witness ==
    /\ hook.currentStep = 3
    /\ hook.isComplete
    /\ hook.status = "Puzzle solved!"
    /\ hook.isCorrectMove = "true"

HookReplyApplied ==
    /\ HookTimerFires
    /\ hook.timers[NextTimer(hook.timers)].kind = "reply"
    /\ hook'.currentStep = hook.currentStep + 1

(***************************************************************************)
(* C4.  After a correct solver move that is not the last ply the scripted  *)
(* reply is eventually played and the session expects the solver's next    *)
(* move.  Once every timer has fired nothing more will happen by itself,   *)
(* so the claim requires of useChessPuzzle: when no timer is pending and   *)
(* the puzzle is not complete, the cursor is on a solver ply and the       *)
(* solver is to move on the board.                                         *)
(***************************************************************************)
C4_ReplyPlayedOnceTimersDone ==
    (component = "useChessPuzzle" /\ hook.timers = <<>> /\ ~hook.isComplete
        /\ hook.currentStep < Len(hook.moves))
    => (hook.currentStep % 2 = 0 /\ Turn(hook.gameRef) = "first")

(***************************************************************************)
(* C5.  In useChessPuzzle the solver's accepted moves are matched only     *)
(* against even solution indices and the replies played by the timer are   *)
(* only odd-index entries.                                                 *)
(***************************************************************************)
C5_SolverEvenOpponentOdd ==
    [][ /\ HookAcceptedStep => hook.currentStep % 2 = 0
        /\ HookReplyApplied =>
              (hook.timers[NextTimer(hook.timers)].step + 1) % 2 = 1
      ]_vars

(***************************************************************************)
(* C6.  In ChessPuzzleLogin, while a scripted opponent reply is waiting to *)
(* be applied the cursor has not passed that ply and the puzzle is not     *)
(* reported solved.  (Entry k of puzzleSolution is ply k + 1 of the line.) *)
(***************************************************************************)
C6_CursorNotPastPendingReply ==
    \A i \in 1..Len(login.timers) :
        login.timers[i].kind = "reply" =>
            /\ login.solutionIndex <= login.timers[i].replyUci.ply - 1
            /\ login.solutionIndex < Len(login.puzzleSolution)
            /\ login.status # "Puzzle solved! Granting access..."

(***************************************************************************)
(* C7.  A legal move attempted in useChessPuzzle when the cursor is at the *)
(* end of the solution is refused and changes nothing: cursor, flags,      *)
(* status, game and displayed position stay as they were and no timer is   *)
(* started.                                                                *)
(***************************************************************************)
C7_MoveAfterSolvedChangesNothing ==
    [][ (hook.currentStep >= Len(hook.moves) /\ hook.isComplete
            /\ \E m \in Attempts(hook.moves) : HookLegalMove(m))
        => hook' = hook ]_vars

(***************************************************************************)
(* C8.  Once useChessPuzzle reports the puzzle solved with the cursor at    *)
(* the end of the solution, no step other than reset() clears isComplete   *)
(* or changes currentStep.                                                 *)
(***************************************************************************)
C8_SolvedIsTerminal ==
    [][ (hook.isComplete /\ hook.currentStep = Len(hook.moves) /\ ~reset)
        => (hook'.isComplete /\ hook'.currentStep = hook.currentStep) ]_vars

(***************************************************************************)
(* C9.  Right after reset() of useChessPuzzle the cursor is 0, isComplete  *)
(* is false, isCorrectMove is null and game and displayed position are the *)
(* puzzle's starting position; right after resetPuzzle() of ChessPuzzle    *)
(* solutionIndex is 0, the status is 'playing', it is the user's turn and  *)
(* game and displayed position are the starting position.  Both hold       *)
(* whatever the state before, pending timers included.                     *)
(***************************************************************************)
C9_ResetRestoresStart ==
    [][ /\ reset =>
              /\ hook'.currentStep = 0
              /\ ~hook'.isComplete
              /\ hook'.isCorrectMove = "null"
              /\ hook'.gameRef = <<>>
              /\ hook'.position = fen(<<>>)
        /\ resetPuzzle =>
              /\ cpuzzle'.solutionIndex = 0
              /\ cpuzzle'.puzzleStatus = "playing"
              /\ cpuzzle'.isUserTurn
              /\ cpuzzle'.chessGame = <<>>
              /\ cpuzzle'.chessPosition = fen(<<>>)
      ]_vars

C9_Witness ==
    /\ hook.status = "Make your move"
    /\ hook.currentStep = 0
    /\ hook.gameRef = <<>>
    /\ \E i \in 1..Len(hook.timers) : hook.timers[i].kind = "revert"
    /\ \E i \in 1..Len(hook.timers) : hook.timers[i].kind = "reply"

(***************************************************************************)
(* C10.  In every reachable state the cursor lies between 0 and the length *)
(* of the solution: currentStep in useChessPuzzle, solutionIndex in        *)
(* ChessPuzzleLogin.                                                       *)
(***************************************************************************)
C10_CursorInRange ==
    /\ hook.currentStep \in 0..Len(hook.moves)
    /\ login.solutionIndex \in 0..Len(login.puzzleSolution)

(***************************************************************************)
(* C11.  In useChessPuzzle the puzzle is reported solved only with the     *)
(* cursor at the length of the solution: a step that sets isComplete       *)
(* leaves currentStep, the number of plies accepted since the start or the *)
(* last reset, equal to the number of plies of the solution.               *)
(***************************************************************************)
C11_SolvedAfterAllPlies ==
    [][ (~hook.isComplete /\ hook'.isComplete)
        => hook'.currentStep = Len(hook.moves) ]_vars

(***************************************************************************)
(* C12.  No board on which moves can be attempted is presented for an      *)
(* empty solution: ChessPuzzleLogin shows its board only for a puzzle      *)
(* whose delivered solution has at least one entry, and useChessPuzzle     *)
(* given a puzzle with no moves lets no move onto its game.                *)
(***************************************************************************)
C12_EmptySolutionRejected ==
    /\ LoginBoardShown => Len(login.data) > 0
    /\ (component = "useChessPuzzle" /\ hook.moves = <<>>) => hook.gameRef = <<>>

(***************************************************************************)
(* C13.  The first move the solver has to find is entry 0 of the solution  *)
(* the puzzle source delivers.  When ChessPuzzleLogin has loaded a puzzle  *)
(* no solution entry has been played on its game and the move it expects   *)
(* first is entry 0 of the delivered solution; ChessPuzzle never schedules *)
(* a computer move ahead of the solver's first move.                       *)
(***************************************************************************)
C13_FirstMoveIsEntryZero ==
    [][ /\ (fetchPuzzle /\ login'.loaded) =>
              /\ login'.chessGameRef = <<>>
              /\ At(login'.puzzleSolution, login'.solutionIndex) = At(login'.data, 0)
        /\ \A i \in 1..Len(cpuzzle'.timers) : cpuzzle'.timers[i].kind # "first"
      ]_vars

(***************************************************************************)
(* C14.  A legal user move is accepted exactly when its canonical notation *)
(* (source square, destination square, and the promotion piece when the    *)
(* move promotes) is equal, as a string, to solution[cursor]: in           *)
(* useChessPuzzle.makeMove, in ChessPuzzleLogin.handleUserMove and in      *)
(* PuzzleChess.handleUserMove, for every solution entry, with or without a *)
(* promotion suffix.                                                       *)
(***************************************************************************)
C14_AcceptedIffNotationEqual ==
    LET canonical(promotion) ==
            Uci(notation.from, notation.to,
                IF notation.promotes THEN promotion ELSE "")
        asked == IF notation.promotion = "undefined" THEN "q" ELSE notation.promotion
    IN  /\ notation.fn = "useChessPuzzle.makeMove" =>
              (notation.result
                  <=> canonical(asked) = At(notation.solution, notation.currentStep))
        /\ notation.fn = "ChessPuzzleLogin.handleUserMove" =>
              (notation.result
                  <=> canonical("q") = At(notation.solution, notation.currentStep))
        /\ notation.fn = "PuzzleChess.handleUserMove" =>
              (notation.result
                  <=> canonical("q") = At(PUZZLE_SOLUTION, notation.currentStep))

HookAwaitsReply == hook.isCorrectMove = "true" /\ ~hook.isComplete

HookReplyFires ==
    /\ HookTimerFires
    /\ hook.timers[NextTimer(hook.timers)].kind = "reply"

CPAwaitsReply == cpuzzle.puzzleStatus = "correct" /\ ~cpuzzle.isUserTurn

(***************************************************************************)
(* C15.  The opponent-ply step takes effect only when the step before it   *)
(* was an accepted solver move awaiting a reply.  In useChessPuzzle        *)
(* isCorrectMove true with isComplete false marks that situation (a wrong  *)
(* move, a revert, a reply and a reset all overwrite it); in ChessPuzzle   *)
(* the status 'correct' with isUserTurn false does.  When the reply        *)
(* callback runs in any other situation it leaves the cursor and the       *)
(* outcome as they were.                                                   *)
(***************************************************************************)
C15_ReplyOnlyWhenAwaited ==
    [][ /\ (HookReplyFires /\ ~HookAwaitsReply) =>
              /\ hook'.currentStep = hook.currentStep
              /\ hook'.isComplete = hook.isComplete
        /\ (CPTimerFires /\ ~CPAwaitsReply) =>
              /\ cpuzzle'.solutionIndex = cpuzzle.solutionIndex
              /\ cpuzzle'.puzzleStatus = cpuzzle.puzzleStatus
      ]_vars

C17_ProgressMonotoneInRange ==
    [][ LET progress == getPuzzleProgress(hook.currentStep, hook.moves)
            progressAfter == getPuzzleProgress(hook'.currentStep, hook'.moves)
        IN  /\ progress \in 0..100
            /\ progressAfter \in 0..100
            /\ ~reset => progressAfter >= progress
      ]_vars

C17_Witness ==
    /\ hook.currentStep = 2
    /\ Len(hook.moves) = 3
    /\ getPuzzleProgress(hook.currentStep, hook.moves) = 67

HookRevertFires ==
    /\ HookTimerFires
    /\ hook.timers[NextTimer(hook.timers)].kind = "revert"

LoginReplyFires ==
    /\ LoginTimerFires
    /\ login.timers[NextTimer(login.timers)].kind = "reply"

\* The timer started last is a revert: every handleUserMove that changes
\* anything starts a timer, and none started after a revert fires before it,
\* so the wrong move is the last thing the user did.
LoginWrongMoveLast ==
    /\ login.timers # <<>>
    /\ login.timers[Len(login.timers)].kind = "revert"

(***************************************************************************)
(* C18.  After a wrong move, once its revert timer has fired and with no   *)
(* user action in between, game and displayed position are those of just   *)
(* before the wrong move and the same move is expected.  Step by step: the *)
(* wrong move leaves the cursor (and, in useChessPuzzle, the displayed     *)
(* position); while the wrong move is the last thing the user did, no      *)
(* reply callback changes the game or the cursor; the revert takes the     *)
(* last move back, leaves the                                              *)
(* cursor and displays the position of before the wrong move (in           *)
(* useChessPuzzle the position of the game after the undo, in              *)
(* ChessPuzzleLogin the prevFen taken before the move).                    *)
(***************************************************************************)
C18_RevertRestoresPosition ==
    [][ /\ HookWrongStep =>
              /\ hook'.currentStep = hook.currentStep
              /\ hook'.position = hook.position
        /\ (HookReplyFires /\ hook.isCorrectMove = "false") =>
              /\ hook'.gameRef = hook.gameRef
              /\ hook'.currentStep = hook.currentStep
        /\ HookRevertFires =>
              /\ hook'.gameRef = undo(hook.gameRef)
              /\ hook'.position = fen(hook'.gameRef)
              /\ hook'.currentStep = hook.currentStep
        /\ LoginWrongStep => login'.solutionIndex = login.solutionIndex
        /\ (LoginReplyFires /\ LoginWrongMoveLast) =>
              /\ login'.chessGameRef = login.chessGameRef
              /\ login'.solutionIndex = login.solutionIndex
        /\ LoginRevertFires =>
              /\ login'.chessGameRef = undo(login.chessGameRef)
              /\ login'.chessPosition = login.timers[NextTimer(login.timers)].prevFen
              /\ login'.solutionIndex = login.solutionIndex
      ]_vars

(***************************************************************************)
(* C19.  When the puzzle request fails, fetchDailyPuzzle throws; and       *)
(* ChessPuzzleLogin ends with error set and isLoading false: fetchPuzzle   *)
(* always ends the loading, an error is shown only with nothing loaded and *)
(* no timer pending, and from then on nothing changes: no move is taken    *)
(* and Home stays on the puzzle page, onPuzzleSolved never being called.   *)
(***************************************************************************)
C19_FetchFailureEndsInError ==
    [][ /\ (notation'.fn = "fetchDailyPuzzle" /\ notation'.result.response # "ok") =>
              notation'.result.threw
        /\ fetchPuzzle => (~login'.isLoading /\ ~login'.fetching)
        /\ login'.error # "null" =>
              /\ ~login'.isLoading
              /\ ~login'.loaded
              /\ login'.chessGameRef = <<>>
              /\ login'.timers = <<>>
              /\ home'.currentPage = "puzzle"
        /\ login.error # "null" => UNCHANGED <<login, home>>
      ]_vars

C19_Witness ==
    /\ home.currentPage = "puzzle"
    /\ login.mounted
    /\ login.error # "null"
    /\ ~login.isLoading

CPReplyFires ==
    /\ CPTimerFires
    /\ cpuzzle.timers[NextTimer(cpuzzle.timers)].kind = "reply"

(***************************************************************************)
(* C21.  In ChessPuzzle, when the 800 ms timer of a correct player move    *)
(* that was not the last fires while the reply is awaited (solutionIndex   *)
(* is k + 1), makeComputerMove plays solution[k + 1], sets solutionIndex   *)
(* to k + 2 and gives the turn back to the player.                         *)
(***************************************************************************)
C21_ComputerRepliesWithNextMove ==
    [][ (CPReplyFires /\ CPAwaitsReply) =>
          /\ cpuzzle'.chessGame =
                 Append(cpuzzle.chessGame, At(CPSolution, cpuzzle.solutionIndex))
          /\ cpuzzle'.solutionIndex = cpuzzle.solutionIndex + 1
          /\ cpuzzle'.isUserTurn
      ]_vars

\* chessGameRef.current.fen(): until a puzzle is loaded the ref holds the
\* new Chess() of the first render.
LoginGameFen == IF login.loaded THEN fen(login.chessGameRef) ELSE StartFen

(***************************************************************************)
(* C22.  In ChessPuzzleLogin, whenever the board is shown and no revert or *)
(* reply timer is pending, the displayed position chessPosition is the     *)
(* position of the game held in chessGameRef, whatever the interleaving of *)
(* user moves and timer callbacks before.                                  *)
(***************************************************************************)
C22_DisplayedIsGamePosition ==
    (/\ LoginBoardShown
     /\ ~HasTimer(login.timers, "revert")
     /\ ~HasTimer(login.timers, "reply"))
        => login.chessPosition = LoginGameFen

(***************************************************************************)
(* C23.  In useChessPuzzle, from reset() until the next accepted user move *)
(* currentStep stays 0 and isComplete stays false: in a state with         *)
(* currentStep 0 and isComplete false, no timer callback changes either,   *)
(* although timers scheduled before the reset may fire after it.           *)
(***************************************************************************)
C23_ResetStateKeptUntilNextMove ==
    [][ (HookTimerFires /\ hook.currentStep = 0 /\ ~hook.isComplete) =>
          (hook'.currentStep = 0 /\ ~hook'.isComplete)
      ]_vars

(***************************************************************************)
(* C24.  In every state of useChessPuzzle, isComplete is true only if      *)
(* currentStep >= puzzle.moves.length.                                     *)
(***************************************************************************)
C24_CompleteOnlyAtEnd ==
    (component = "useChessPuzzle" /\ hook.isComplete)
        => hook.currentStep >= Len(hook.moves)

\* The pending timers that will call onPuzzleSolved.
LoginSolvedTimers(timers) == {i \in 1..Len(timers) : timers[i].kind = "solved"}

(***************************************************************************)
(* C25.  ChessPuzzleLogin calls onPuzzleSolved at most once per session:   *)
(* at most one timer that calls it is ever pending, once solutionIndex has *)
(* reached the end of puzzleSolution no step changes solutionIndex or      *)
(* starts another one, whatever the user tries meanwhile, and the call     *)
(* leaves none behind.                                                     *)
(***************************************************************************)
C25_SolvedCalledAtMostOnce ==
    [][ /\ Cardinality(LoginSolvedTimers(login'.timers)) <= 1
        /\ HasTimer(login'.timers, "solved") =>
              login'.solutionIndex >= Len(login'.puzzleSolution)
        /\ (login.loaded /\ login.solutionIndex >= Len(login.puzzleSolution)) =>
              /\ login'.solutionIndex = login.solutionIndex
              /\ Cardinality(LoginSolvedTimers(login'.timers))
                     <= Cardinality(LoginSolvedTimers(login.timers))
        /\ LoginSolvedFires => ~HasTimer(login'.timers, "solved")
      ]_vars

C25_Witness ==
    /\ LoginBoardShown
    /\ \E i \in LoginSolvedTimers(login.timers) : login.timers[i].due < LOGIN_SOLVED_MS
    /\ HasTimer(login.timers, "revert")

CPPlayerStep ==
    \/ \E m \in Attempts(CPSolution) : onSquareClick(m)
    \/ \E m \in Attempts(CPSolution), legal \in BOOLEAN : onPieceDrop(m, legal)

(***************************************************************************)
(* C26.  In ChessPuzzle, while puzzleStatus is not 'playing' or isUserTurn *)
(* is false, a call of onSquareClick or onPieceDrop applies no move to the *)
(* board and leaves solutionIndex: the player cannot move between a        *)
(* correct move and the computer's reply, nor after completion.            *)
(***************************************************************************)
C26_NoPlayerMoveOutOfTurn ==
    [][ (CPPlayerStep /\ (cpuzzle.puzzleStatus # "playing" \/ ~cpuzzle.isUserTurn)) =>
          /\ cpuzzle'.chessGame = cpuzzle.chessGame
          /\ cpuzzle'.chessPosition = cpuzzle.chessPosition
          /\ cpuzzle'.solutionIndex = cpuzzle.solutionIndex
      ]_vars

C26_Witness ==
    /\ cpuzzle.puzzleStatus = "correct"
    /\ ~cpuzzle.isUserTurn
    /\ \E i \in 1..Len(cpuzzle.timers) :
           cpuzzle.timers[i].kind = "reply" /\ cpuzzle.timers[i].due < CP_REPLY_MS

(***************************************************************************)
(* C27.  In ChessPuzzleLogin and PuzzleChess, solutionIndex is in every    *)
(* state even or equal to the length of the play sequence (puzzleSolution, *)
(* PUZZLE_SOLUTION); so whenever handleUserMove has an expected move to    *)
(* compare the user's move with, solutionIndex is even.                    *)
(***************************************************************************)
C27_SolutionIndexEvenOrEnd ==
    /\ login.solutionIndex % 2 = 0 \/ login.solutionIndex = Len(login.puzzleSolution)
    /\ LoginExpected # Undefined => login.solutionIndex % 2 = 0
    /\ pchess.solutionIndex % 2 = 0 \/ pchess.solutionIndex = Len(PChessSolution)
    /\ At(PChessSolution, pchess.solutionIndex) # Undefined => pchess.solutionIndex % 2 = 0

C27_Witness ==
    /\ component = "PuzzleChess"
    /\ pchess.solutionIndex = Len(PChessSolution)
    /\ pchess.solutionIndex % 2 = 1
    /\ pchess.chessGameRef = PChessSolution

(***************************************************************************)
(* C28.  In Home, 'portfolio' is absorbing: once currentPage is            *)
(* 'portfolio' no step changes it; and from 'puzzle' the page can only     *)
(* become 'portfolio': there is no way back to 'welcome'.                  *)
(***************************************************************************)
C28_PortfolioAbsorbing ==
    [][ /\ home.currentPage = "portfolio" => home'.currentPage = "portfolio"
        /\ home.currentPage = "puzzle" => home'.currentPage \in {"puzzle", "portfolio"}
      ]_vars

C28_Witness ==
    /\ home.currentPage = "portfolio"
    /\ login.mounted
    /\ login.solutionIndex >= Len(login.puzzleSolution)
    /\ login.loaded

=============================================================================
